---- MODULE Spec2Model ----
(***************************************************************************)
(* Audio ingestion, batching, dispatch and result delivery of the live     *)
(* translator backend (backend/app/main.py, backend/app/asr.py).           *)
(*                                                                         *)
(* One asyncio event loop runs a handler coroutine per websocket           *)
(* (websocket_endpoint) and one background coroutine (audio_processor).    *)
(* A coroutine runs without interruption between two awaits, so every      *)
(* action below is the code between two suspension points.                 *)
(***************************************************************************)
EXTENDS Integers, Sequences, FiniteSets, TLC

VARIABLES
    active_connections, \* main.py:35  websocket -> [language, buffer]
    audio_queue,        \* main.py:34  FIFO of AudioTask
    handler,            \* position of each websocket_endpoint coroutine
    worker,             \* position of the audio_processor coroutine
    task,               \* the AudioTask audio_processor holds (main.py:163)
    sent,               \* per websocket: the messages send_json delivered
    engine_log,         \* history: the engine calls in order, with how each ended
    ingest_log,         \* history: per websocket, the chunks appended
    last                \* history: the step taken last

vars == <<active_connections, audio_queue, handler, worker, task, sent,
          engine_log, ingest_log, last>>

----------------------------------------------------------------------------
(* Bounds of the model *)

\* well-formed chunks accepted over all connections
MaxChunks == 11
\* set_language acknowledgements delivered over all connections
MaxAcks == 2

\* the websockets that may connect
Sockets == {"ws1", "ws2"}

\* main.py:129  len(buffer) >= 5
BATCH_THRESHOLD == 5
\* main.py:125  itemsize of np.float32
SAMPLE_WIDTH == 4

NoTask == [ws |-> "none", chunks |-> <<>>, language |-> "", cut |-> 0]
Quiet == [op |-> "init", ws |-> "none", out |-> "none"]

----------------------------------------------------------------------------
(* Pure helpers *)

RECURSIVE Sum(_, _)
Sum(f, S) == IF S = {} THEN 0
             ELSE LET x == CHOOSE y \in S : TRUE IN f[x] + Sum(f, S \ {x})

\* number of elements of sequence s that satisfy Test
Count(s, Test(_)) == Cardinality({i \in 1..Len(s) : Test(s[i])})

\* one float32 from its four little-endian bytes, identified by its bit pattern
Float32(b) == b[1] + 256 * b[2] + 65536 * b[3] + 16777216 * b[4]

\* frombuffer that drops the bytes past the last whole sample
frombuffer_Truncating(data) ==
    [error |-> "none",
     array |-> [i \in 1..(Len(data) \div SAMPLE_WIDTH) |->
                   Float32(SubSeq(data, SAMPLE_WIDTH * (i - 1) + 1,
                                        SAMPLE_WIDTH * i))]]

\* np.frombuffer(data, dtype=np.float32): ValueError unless the size is a
\* multiple of the element size
frombuffer(data) ==
    IF Len(data) % SAMPLE_WIDTH # 0
    THEN [error |-> "ValueError", array |-> <<>>]
    ELSE [error |-> "none",
          array |-> [i \in 1..(Len(data) \div SAMPLE_WIDTH) |->
                        Float32(SubSeq(data, SAMPLE_WIDTH * (i - 1) + 1,
                                             SAMPLE_WIDTH * i))]]

\* np.concatenate(chunks)
RECURSIVE concatenate(_)
concatenate(chunks) ==
    IF chunks = <<>> THEN <<>>
    ELSE Head(chunks) \o concatenate(Tail(chunks))


(* Text: a string is a sequence of one-character strings *)

IsSpace(ch) == ch = " "

\* str.strip()
RECURSIVE lstrip(_)
lstrip(text) ==
    IF text = <<>> THEN <<>>
    ELSE IF IsSpace(Head(text)) THEN lstrip(Tail(text)) ELSE text

RECURSIVE rstrip(_)
rstrip(text) ==
    IF text = <<>> THEN <<>>
    ELSE IF IsSpace(text[Len(text)]) THEN rstrip(SubSeq(text, 1, Len(text) - 1))
    ELSE text

strip(text) == rstrip(lstrip(text))

\* " ".join(parts)
RECURSIVE join(_)
join(parts) ==
    IF parts = <<>> THEN <<>>
    ELSE IF Len(parts) = 1 THEN Head(parts)
    ELSE Head(parts) \o <<" ">> \o join(Tail(parts))

\* the generator of asr.py:31-35: segment.text.strip() for the segments whose
\* text is non-empty after stripping
RECURSIVE spoken(_)
spoken(segments) ==
    IF segments = <<>> THEN <<>>
    ELSE IF Head(segments) # <<>> /\ strip(Head(segments)) # <<>>
         THEN <<strip(Head(segments))>> \o spoken(Tail(segments))
         ELSE spoken(Tail(segments))

----------------------------------------------------------------------------
(* The engine (asr.py) *)

\* the segment texts model.transcribe may yield for one batch: nothing, only
\* blank segments, or speech among blank segments
SegmentSeqs == {<<>>, << <<>>, <<" ">> >>,
                << <<" ", "a">>, <<" ">>, <<"a", " ">> >>}

\* what model.transcribe and the iteration over its segments may do
ModelOutcomes ==
    {[raises |-> TRUE, segments |-> <<>>]}
    \cup {[raises |-> FALSE, segments |-> s] : s \in SegmentSeqs}

\* transcribe_audio: the joined text, or "" when the model raised
transcribe_audio(outcome) ==
    IF outcome.raises THEN <<>> ELSE join(spoken(outcome.segments))

\* what `await asyncio.to_thread(transcribe_audio, ...)` may do in
\* audio_processor: return transcribe_audio's text, or raise (get_model at
\* asr.py:22 is outside the try; the thread pool may refuse the call)
CallOutcomes ==
    {[raises |-> TRUE, text |-> <<>>]}
    \cup {[raises |-> FALSE, text |-> transcribe_audio(o)] : o \in ModelOutcomes}

----------------------------------------------------------------------------
(* Inbound text payloads and json.loads on them *)

SetFr == "{\"type\": \"set_language\", \"language\": \"fr\"}"
SetEn == "{\"type\": \"set_language\", \"language\": \"en\"}"
SetDefault == "{\"type\": \"set_language\"}"
Ping == "{\"type\": \"ping\", \"language\": \"fr\"}"
NoType == "{\"language\": \"fr\"}"
JsonList == "[\"set_language\", \"fr\"]"
JsonNumber == "5"
JsonNull == "null"
Truncated == "{\"type\": \"set_language\""
NotJson == "hello"

TextPayloads == {SetFr, SetEn, SetDefault, Ping, NoType, JsonList, JsonNumber,
                 JsonNull, Truncated, NotJson}

Dict(pairs) == [error |-> "none", kind |-> "dict", items |-> pairs]
NonDict(k) == [error |-> "none", kind |-> k, items |-> {}]

\* json.loads(text) on the payloads above
json_loads(text) ==
    CASE text = SetFr -> Dict({<<"type", "set_language">>, <<"language", "fr">>})
      [] text = SetEn -> Dict({<<"type", "set_language">>, <<"language", "en">>})
      [] text = SetDefault -> Dict({<<"type", "set_language">>})
      [] text = Ping -> Dict({<<"type", "ping">>, <<"language", "fr">>})
      [] text = NoType -> Dict({<<"language", "fr">>})
      [] text = JsonList -> NonDict("list")
      [] text = JsonNumber -> NonDict("int")
      [] text = JsonNull -> NonDict("NoneType")
      [] OTHER -> [error |-> "JSONDecodeError", kind |-> "none", items |-> {}]

\* msg.get(key, default) on a dict
dict_get(msg, key, default) ==
    IF \E p \in msg.items : p[1] = key
    THEN (CHOOSE p \in msg.items : p[1] = key)[2]
    ELSE default

\* main.py:108-119: what the handler does with a text message
\*   "set"     the set_language branch runs with .language
\*   "skip"    parsed, the if is false
\*   "warning" json.JSONDecodeError caught at line 118
\*   "raise"   msg.get raises AttributeError, which line 118 does not catch
text_action(text) ==
    LET msg == json_loads(text) IN
    IF msg.error = "JSONDecodeError" THEN [do |-> "warning", language |-> ""]
    ELSE IF msg.kind # "dict" THEN [do |-> "raise", language |-> ""]
    ELSE IF dict_get(msg, "type", "None") = "set_language"
         THEN [do |-> "set", language |-> dict_get(msg, "language", "en")]
         ELSE [do |-> "skip", language |-> ""]

----------------------------------------------------------------------------
(* Inbound binary payloads *)

SocketByte(ws) == IF ws = "ws1" THEN 1 ELSE 2

\* The payload of the n-th well-formed chunk of the client of ws.  The client
\* speaks, falls silent for the length of one batch and speaks again: a
\* chunk holds n mod 3 samples (so chunks of no, one and two samples
\* alternate), but none from chunk T+1 to chunk 2T.  Sample j of chunk n has
\* the bytes n, j, SocketByte(ws), 0.
RECURSIVE SampleBytes(_, _, _)
SampleBytes(ws, n, count) ==
    IF count = 0 THEN <<>>
    ELSE SampleBytes(ws, n, count - 1) \o <<n, count, SocketByte(ws), 0>>

ChunkBytes(ws, n) ==
    IF n \in (BATCH_THRESHOLD + 1)..(2 * BATCH_THRESHOLD) THEN <<>>
    ELSE SampleBytes(ws, n, n % 3)

\* The next binary payloads the client of ws may send: its next well-formed
\* chunk, or that chunk followed by one or by three stray bytes.
BinaryPayloads(ws) ==
    LET data == ChunkBytes(ws, Len(ingest_log[ws]) + 1)
    IN {data, data \o <<9>>, data \o <<9, 9, 9>>}

\* The text payloads the client of ws may send: ws1 is a client that also
\* sends control messages, any other client only streams audio.
TextPayloadsOf(ws) == IF ws = "ws1" THEN TextPayloads ELSE {}

----------------------------------------------------------------------------
(* Initial state: nothing connected, queue empty, worker polling.  A       *)
(* websocket is "pending" when its client is about to connect and "absent" *)
(* when it never does.                                                      *)

Start(clients) ==
    /\ active_connections = <<>>
    /\ audio_queue = <<>>
    /\ handler = [ws \in Sockets |-> IF ws \in clients THEN "pending"
                                     ELSE "absent"]
    /\ worker = "poll"
    /\ task = NoTask
    /\ sent = [ws \in Sockets |-> <<>>]
    /\ engine_log = <<>>
    /\ ingest_log = [ws \in Sockets |-> <<>>]
    /\ last = Quiet

\* one client
Init == Start({"ws1"})

\* two clients
InitPair == Start(Sockets)

----------------------------------------------------------------------------
(* Registry operations *)

\* a delivery that does not look the websocket up
IsActive_Always(ws) == TRUE

\* main.py:182  task.ws in active_connections
IsActive(ws) == ws \in DOMAIN active_connections

\* main.py:95-98
Register(conns, ws) ==
    [w \in DOMAIN conns \cup {ws} |->
        IF w = ws THEN [language |-> "en", buffer |-> <<>>] ELSE conns[w]]

\* an except clause that leaves the entry where it is
Unregister_Keep(conns, ws) == conns

\* main.py:149-150, 154-155
Unregister(conns, ws) == [w \in DOMAIN conns \ {ws} |-> conns[w]]

\* an update that writes a fresh state for the connection
SetLanguage_Reset(conns, ws, language) ==
    [conns EXCEPT ![ws] = [language |-> language, buffer |-> <<>>]]

\* main.py:112
SetLanguage(conns, ws, language) ==
    [conns EXCEPT ![ws].language = language]

\* one buffer that all connections share
SetBuffer_Shared(conns, ws, buffer) ==
    [w \in DOMAIN conns |-> [conns[w] EXCEPT !.buffer = buffer]]

\* main.py:126, 132
SetBuffer(conns, ws, buffer) == [conns EXCEPT ![ws].buffer = buffer]

\* a threshold test that is off by one
ReadyToCut_Late(buffer) == Len(buffer) > BATCH_THRESHOLD

\* main.py:129
ReadyToCut(buffer) == Len(buffer) >= BATCH_THRESHOLD

\* the batches cut on ws so far: those waiting and those dequeued (history)
CutsOf(ws) ==
    Count(audio_queue, LAMBDA t : t.ws = ws)
    + Count(engine_log, LAMBDA e : e.ws = ws)

\* main.py:130-137  AudioTask(websocket, buffer.copy(), language); cut is the
\* number of this batch among the batches of its websocket (history)
AudioTask(ws, buffer, language) ==
    [ws |-> ws, chunks |-> buffer, language |-> language,
     cut |-> CutsOf(ws) + 1]

\* a batch that holds the buffer itself, which line 132 empties
copy_Alias(buffer) == <<>>

\* main.py:130  buffer.copy(): a list of its own with the same chunks
copy(buffer) == buffer

\* a buffer that is left as it is when a batch is cut
Cleared_Kept(buffer) == buffer

\* main.py:132  buffer.clear()
Cleared(buffer) == <<>>

\* main.py:114-117
LanguageStatus(language) ==
    [type |-> "status", message |-> <<"Language set to ", language>>]

\* main.py:140-143
ProcessingStatus == [type |-> "status", message |-> <<"Processing audio...">>]

\* a response that reads the language of the connection at delivery
Transcription_CurrentLanguage(t, text) ==
    [type |-> "transcription", text |-> strip(text),
     language |-> active_connections[t.ws].language]

\* main.py:183-187
Transcription(t, text) ==
    [type |-> "transcription", text |-> strip(text), language |-> t.language]

\* a test that lets every result through
HasSpeech_Always(text) == TRUE

\* main.py:177
HasSpeech(text) == text # <<>> /\ strip(text) # <<>>

\* a response that goes to the other connection
Recipient_Other(t) == IF t.ws = "ws1" THEN "ws2" ELSE "ws1"

\* main.py:188  task.ws.send_json(response)
Recipient(t) == t.ws

\* a delivered message and, for a transcription, the batch it is about
Delivered(msg, t) == [msg |-> msg, ws |-> t.ws, cut |-> t.cut]

Event(op, ws, out) == [op |-> op, ws |-> ws, out |-> out]

ChunksSoFar == Sum([ws \in Sockets |-> Len(ingest_log[ws])], Sockets)

AcksSoFar ==
    Sum([ws \in Sockets |->
            Count(sent[ws], LAMBDA d : d.msg.type = "status"
                                       /\ d.msg # ProcessingStatus)],
        Sockets)

----------------------------------------------------------------------------
(* websocket_endpoint *)

\* main.py:148-155: either except clause removes the entry; the coroutine ends
Teardown(ws) ==
    /\ active_connections' = Unregister(active_connections, ws)
    /\ handler' = [handler EXCEPT ![ws] = "exited"]

\* main.py:92-100
Accept(ws) ==
    /\ handler[ws] = "pending"
    /\ active_connections' = Register(active_connections, ws)
    /\ handler' = [handler EXCEPT ![ws] = "running"]
    /\ last' = Event("accept", ws, "ok")
    /\ UNCHANGED <<audio_queue, worker, task, sent, engine_log, ingest_log>>

\* main.py:107-119: receive() returned a text message
RecvText(ws, text) ==
    /\ handler[ws] = "running"
    /\ LET a == text_action(text) IN
       CASE a.do = "set" ->
              /\ AcksSoFar < MaxAcks
              /\ \E ok \in BOOLEAN :
                    IF ok
                    THEN /\ active_connections' =
                               SetLanguage(active_connections, ws, a.language)
                         /\ sent' = [sent EXCEPT ![ws] = Append(@,
                               Delivered(LanguageStatus(a.language), NoTask))]
                         /\ last' = Event("text", ws, "set")
                         /\ UNCHANGED handler
                    ELSE \* send_json raises: line 152
                         /\ Teardown(ws)
                         /\ last' = Event("text", ws, "send_failed")
                         /\ UNCHANGED sent
         [] a.do = "raise" ->
              /\ Teardown(ws)
              /\ last' = Event("text", ws, "error")
              /\ UNCHANGED sent
         [] OTHER ->
              /\ last' = Event("text", ws, a.do)
              /\ UNCHANGED <<active_connections, handler, sent>>
    /\ UNCHANGED <<audio_queue, worker, task, engine_log, ingest_log>>

\* main.py:135-137  audio_queue.put_nowait(task), at the other end
put_nowait_Front(queue, t) == <<t>> \o queue

\* main.py:135-137  audio_queue.put_nowait(task)
put_nowait(queue, t) == Append(queue, t)

\* main.py:122-146: the branch of the handler for a binary message
HandleBytes(ws, data) ==
    /\ handler[ws] = "running"
    /\ LET r == frombuffer(data)
           language == active_connections[ws].language
           buffer == Append(active_connections[ws].buffer, r.array)
       IN
       IF r.error # "none"
       THEN \* line 145
            /\ last' = Event("bytes", ws, "warning")
            /\ UNCHANGED <<active_connections, audio_queue, handler, sent,
                           ingest_log>>
       ELSE /\ ingest_log' = [ingest_log EXCEPT ![ws] = Append(@, r.array)]
            /\ IF ReadyToCut(buffer)
               THEN /\ audio_queue' = put_nowait(audio_queue,
                          AudioTask(ws, copy(buffer), language))
                    /\ \E ok \in BOOLEAN :
                          IF ok
                          THEN /\ active_connections' = SetBuffer(
                                     active_connections, ws, Cleared(buffer))
                               /\ sent' = [sent EXCEPT ![ws] = Append(@,
                                     Delivered(ProcessingStatus, NoTask))]
                               /\ last' = Event("bytes", ws, "cut")
                               /\ UNCHANGED handler
                          ELSE \* send_json raises: line 152
                               /\ Teardown(ws)
                               /\ last' = Event("bytes", ws, "send_failed")
                               /\ UNCHANGED sent
               ELSE /\ active_connections' =
                          SetBuffer(active_connections, ws, buffer)
                    /\ last' = Event("bytes", ws, "buffered")
                    /\ UNCHANGED <<audio_queue, handler, sent>>
    /\ UNCHANGED <<worker, task, engine_log>>

\* main.py:104, 122-146: receive() returned a binary message; the clients
\* send MaxChunks well-formed chunks between them
RecvBytes(ws, data) ==
    /\ frombuffer(data).error = "none" => ChunksSoFar < MaxChunks
    /\ HandleBytes(ws, data)

\* main.py:104, 122-146: receive() returned the next chunk of the stream of
\* the client; each client streams MaxChunks chunks
RecvChunk(ws) ==
    /\ Len(ingest_log[ws]) < MaxChunks
    /\ HandleBytes(ws, ChunkBytes(ws, Len(ingest_log[ws]) + 1))

\* main.py:104, 152-155: the client went away. receive() returns the
\* disconnect message, which has neither "text" nor "bytes", and the next
\* receive() raises at once.
RecvDisconnect(ws) ==
    /\ handler[ws] = "running"
    /\ Teardown(ws)
    /\ last' = Event("disconnect", ws, "closed")
    /\ UNCHANGED <<audio_queue, worker, task, sent, engine_log, ingest_log>>

----------------------------------------------------------------------------
(* audio_processor *)

\* a read of the head that leaves it on the queue
get_nowait_Peek(queue) == queue

\* main.py:163  audio_queue.get_nowait(): the queue once its head is taken
get_nowait(queue) == Tail(queue)

\* a worker that starts the engine call without awaiting it
CanDequeue_Unawaited(w) == TRUE

\* main.py:161-175, 200: the one audio_processor coroutine reads the queue
\* only at the top of its loop; while it awaits to_thread it does not
CanDequeue(w) == w = "poll"

\* main.py:162-175: dequeue, concatenate, start the engine call
WorkerGet ==
    /\ CanDequeue(worker)
    /\ audio_queue # <<>>
    /\ task' = Head(audio_queue)
    /\ audio_queue' = get_nowait(audio_queue)
    /\ engine_log' = Append(engine_log,
          [ws |-> Head(audio_queue).ws, cut |-> Head(audio_queue).cut,
           audio_np |-> concatenate(Head(audio_queue).chunks),
           language |-> Head(audio_queue).language,
           result |-> "pending", text |-> <<>>])
    /\ worker' = "to_thread"
    /\ last' = Event("get", Head(audio_queue).ws, "transcribing")
    /\ UNCHANGED <<active_connections, handler, sent, ingest_log>>

\* an except clause that also removes the connection from the registry
AfterFailedSend_Unregister(conns, ws) == [w \in DOMAIN conns \ {ws} |-> conns[w]]

\* main.py:192-193: the except clause of the send logs the error and leaves
\* the registry as it is
AfterFailedSend(conns, ws) == conns

\* a loop whose except clause is missing: the exception ends the coroutine
AfterBatch_Propagate(call) == IF call.raises THEN "stopped" ELSE "poll"

\* main.py:197-200: every exception of a batch is caught inside the loop, so
\* the coroutine sleeps and polls again however the call ended
AfterBatch(call) == "poll"

\* main.py:171-200: the engine call ends; result handling and delivery
WorkerDone(call, ok) ==
    /\ worker = "to_thread"
    /\ worker' = AfterBatch(call)
    /\ task' = NoTask
    /\ IF call.raises
       THEN \* line 197
            /\ last' = Event("done", task.ws, "transcription_error")
            /\ UNCHANGED <<sent, active_connections>>
       ELSE IF ~HasSpeech(call.text)
       THEN \* line 195
            /\ last' = Event("done", task.ws, "no_speech")
            /\ UNCHANGED <<sent, active_connections>>
       ELSE IF ~IsActive(task.ws)
       THEN \* line 191
            /\ last' = Event("done", task.ws, "not_active")
            /\ UNCHANGED <<sent, active_connections>>
       ELSE IF ok
       THEN /\ sent' = [sent EXCEPT ![Recipient(task)] = Append(@,
                  Delivered(Transcription(task, call.text), task))]
            /\ last' = Event("done", task.ws, "sent")
            /\ UNCHANGED active_connections
       ELSE \* line 192
            /\ active_connections' =
                  AfterFailedSend(active_connections, task.ws)
            /\ last' = Event("done", task.ws, "send_failed")
            /\ UNCHANGED sent
    /\ engine_log' = [engine_log EXCEPT ![Len(engine_log)] =
          [@ EXCEPT !.result = IF call.raises THEN "raised" ELSE "returned",
                    !.text = call.text]]
    /\ UNCHANGED <<audio_queue, handler, ingest_log>>

----------------------------------------------------------------------------

Next ==
    \/ \E ws \in Sockets : Accept(ws)
    \/ \E ws \in Sockets : \E text \in TextPayloadsOf(ws) : RecvText(ws, text)
    \/ \E ws \in Sockets : \E data \in BinaryPayloads(ws) : RecvBytes(ws, data)
    \/ \E ws \in Sockets : RecvDisconnect(ws)
    \/ WorkerGet
    \/ \E call \in CallOutcomes : \E ok \in BOOLEAN : WorkerDone(call, ok)

Spec == Init /\ [][Next]_vars

SpecPair == InitPair /\ [][Next]_vars

\* two clients that stream audio at the same time and send nothing else
NextStreams ==
    \/ \E ws \in Sockets : Accept(ws)
    \/ \E ws \in Sockets : RecvChunk(ws)
    \/ \E ws \in Sockets : RecvDisconnect(ws)
    \/ WorkerGet
    \/ \E call \in CallOutcomes : \E ok \in BOOLEAN : WorkerDone(call, ok)

SpecStreams == InitPair /\ [][NextStreams]_vars

\* audio_processor polls every 50 ms for as long as the process runs
\* (main.py:161, 200), and an engine call that was started ends.
WorkerFairness ==
    /\ WF_vars(WorkerGet)
    /\ WF_vars(\E call \in CallOutcomes : \E ok \in BOOLEAN : WorkerDone(call, ok))

FairSpec == Spec /\ WorkerFairness

----------------------------------------------------------------------------
(* Vocabulary of the properties *)

Registered(ws) == ws \in DOMAIN active_connections

Running(ws) == handler[ws] = "running"

\* the transcription messages ws received for its batch number cut
TranscriptionsOf(ws, cut) ==
    {i \in 1..Len(sent[ws]) : /\ sent[ws][i].msg.type = "transcription"
                              /\ sent[ws][i].ws = ws
                              /\ sent[ws][i].cut = cut}

\* the payloads of the chunks first..last of the client of ws, byte after
\* byte
RECURSIVE StreamBytes(_, _, _)
StreamBytes(ws, first, last_) ==
    IF last_ < first THEN <<>>
    ELSE StreamBytes(ws, first, last_ - 1) \o ChunkBytes(ws, last_)

\* the samples the client of ws put into chunks first..last
StreamSamples(ws, first, last_) ==
    LET bytes == StreamBytes(ws, first, last_) IN
    [i \in 1..(Len(bytes) \div 4) |->
        bytes[4 * i - 3] + 256 * bytes[4 * i - 2]
        + 65536 * bytes[4 * i - 1] + 16777216 * bytes[4 * i]]

----------------------------------------------------------------------------
(* C1 *)

\* C1: on every connection a batch is cut on the T-th, 2T-th, ... accepted
\* chunk and on no other (after n chunks there are n div T batches, numbered
\* 1..n div T, and n mod T chunks wait in the buffer), and the samples of
\* batch k handed to the engine are the samples of chunks (k-1)T+1..kT in
\* the order the client sent them.
C1_BatchEveryThreshold ==
    \A ws \in Sockets :
        LET n == Len(ingest_log[ws])
            T == BATCH_THRESHOLD
        IN /\ CutsOf(ws) = n \div T
           /\ \A i \in 1..Len(audio_queue) :
                 audio_queue[i].ws = ws =>
                    /\ audio_queue[i].cut \in 1..(n \div T)
                    /\ audio_queue[i].chunks =
                          SubSeq(ingest_log[ws], T * (audio_queue[i].cut - 1) + 1,
                                 T * audio_queue[i].cut)
           /\ \A i \in 1..Len(engine_log) :
                 engine_log[i].ws = ws =>
                    /\ engine_log[i].cut \in 1..(n \div T)
                    /\ engine_log[i].audio_np =
                          StreamSamples(ws, T * (engine_log[i].cut - 1) + 1,
                                        T * engine_log[i].cut)
           /\ Registered(ws) =>
                 active_connections[ws].buffer =
                    SubSeq(ingest_log[ws], T * (n \div T) + 1, n)

\* two batches were cut and handed to the engine, a further chunk waits
C1_Witness ==
    /\ Len(ingest_log["ws1"]) = 2 * BATCH_THRESHOLD + 1
    /\ Len(engine_log) = 2
    /\ Registered("ws1")
    /\ Len(active_connections["ws1"].buffer) = 1

----------------------------------------------------------------------------
(* C2 *)

Malformed(data) == Len(data) % 4 # 0

\* a sample of a well-formed chunk: bytes n, j, s, 0 with j and s 1 or 2
WellFormedSample(x) ==
    /\ x % 256 \in 1..MaxChunks
    /\ (x \div 256) % 256 \in 1..2
    /\ x \div 65536 \in 1..2

\* C2: handling a binary chunk whose length is no multiple of 4 changes
\* nothing: the registry (so the buffer), the queue, the messages sent and
\* the chunks accepted are as before, the connection is still registered and
\* its handler still runs; and no sample of any batch comes from stray bytes.
C2_MalformedChunkIsNoOp ==
    /\ [](\A i \in 1..Len(engine_log) :
             \A j \in 1..Len(engine_log[i].audio_np) :
                WellFormedSample(engine_log[i].audio_np[j]))
    /\ [][\A ws \in Sockets : \A data \in BinaryPayloads(ws) :
             (RecvBytes(ws, data) /\ Malformed(data)) =>
                /\ UNCHANGED <<active_connections, audio_queue, sent,
                               ingest_log, engine_log, handler>>
                /\ ws \in DOMAIN active_connections'
                /\ handler'[ws] = "running"]_vars

\* a malformed chunk was just rejected while four chunks wait in the buffer
C2_Witness ==
    /\ last = Event("bytes", "ws1", "warning")
    /\ Registered("ws1")
    /\ Len(active_connections["ws1"].buffer) = BATCH_THRESHOLD - 1

----------------------------------------------------------------------------
(* C3 *)

IsAck(d) == d.msg.type = "status" /\ d.msg # ProcessingStatus

\* where in the stream of ws the "Processing audio..." of its cut-th batch is;
\* past the end when that notification was not delivered
ProcessingAt(ws, cut) ==
    LET P == {i \in 1..Len(sent[ws]) : sent[ws][i].msg = ProcessingStatus} IN
    IF Cardinality(P) >= cut
    THEN CHOOSE p \in P : Cardinality({q \in P : q <= p}) = cut
    ELSE Len(sent[ws]) + 1

\* the language the client of ws had chosen when its cut-th batch was cut:
\* that of the last acknowledgement it received before, "en" without one
LanguageAtCut(ws, cut) ==
    LET A == {i \in 1..(ProcessingAt(ws, cut) - 1) : IsAck(sent[ws][i])} IN
    IF A = {} THEN "en"
    ELSE sent[ws][CHOOSE a \in A : \A b \in A : b <= a].msg.message[2]

\* C3: a batch carries the language its connection had when it was cut: in
\* the queue, in the engine call and in the transcription message, whatever
\* the language was set to afterwards.
C3_LanguageStampedAtCut ==
    /\ \A i \in 1..Len(audio_queue) :
          audio_queue[i].language =
             LanguageAtCut(audio_queue[i].ws, audio_queue[i].cut)
    /\ \A i \in 1..Len(engine_log) :
          engine_log[i].language =
             LanguageAtCut(engine_log[i].ws, engine_log[i].cut)
    /\ \A ws \in Sockets : \A i \in 1..Len(sent[ws]) :
          sent[ws][i].msg.type = "transcription" =>
             sent[ws][i].msg.language =
                LanguageAtCut(sent[ws][i].ws, sent[ws][i].cut)

\* batch 1 was cut under "en", then "fr" was set, then batch 1 was delivered
\* as "en" and batch 2, cut afterwards, as "fr"
C3_Witness ==
    /\ Len(engine_log) = 2
    /\ engine_log[1].language = "en"
    /\ engine_log[2].language = "fr"
    /\ \E i, j, k \in 1..Len(sent["ws1"]) :
          /\ i < j /\ j < k
          /\ sent["ws1"][i].msg = LanguageStatus("fr")
          /\ sent["ws1"][j].msg.type = "transcription"
          /\ sent["ws1"][j].cut = 1
          /\ sent["ws1"][j].msg.language = "en"
          /\ sent["ws1"][k].msg.type = "transcription"
          /\ sent["ws1"][k].cut = 2
          /\ sent["ws1"][k].msg.language = "fr"

----------------------------------------------------------------------------
(* C4 *)

\* the engine call number i raised and a further batch was waiting
RaisedWithNextWaiting(i) ==
    /\ Len(engine_log) = i
    /\ engine_log[i].result = "raised"
    /\ audio_queue # <<>>

\* the engine call number i ended
CallEnded(i) == Len(engine_log) >= i /\ engine_log[i].result # "pending"

\* C4: a batch whose engine call raised never has a transcription message,
\* is not put back on the queue and is not handed to the engine again; after
\* the raise the worker polls again, ready to dequeue; and a batch that waits
\* in the queue at that moment is dequeued and its engine call ends.
C4_EngineFailureIsContained ==
    /\ [](\A i \in 1..Len(engine_log) :
             engine_log[i].result = "raised" =>
                /\ TranscriptionsOf(engine_log[i].ws, engine_log[i].cut) = {}
                /\ \A j \in 1..Len(audio_queue) :
                      <<audio_queue[j].ws, audio_queue[j].cut>>
                         # <<engine_log[i].ws, engine_log[i].cut>>
                /\ \A j \in 1..Len(engine_log) :
                      j # i => <<engine_log[j].ws, engine_log[j].cut>>
                                  # <<engine_log[i].ws, engine_log[i].cut>>)
    /\ [](last.op = "done" /\ last.out = "transcription_error" =>
             /\ worker = "poll"
             /\ task = NoTask
             /\ audio_queue # <<>> => ENABLED WorkerGet)
    /\ \A i \in 1..3 : RaisedWithNextWaiting(i) ~> CallEnded(i + 1)

\* the call for batch 1 raised while batch 2 waited; batch 2 was then
\* transcribed and delivered, and batch 1 has no message
C4_Witness ==
    /\ Len(engine_log) = 2
    /\ engine_log[1].result = "raised"
    /\ engine_log[2].result = "returned"
    /\ TranscriptionsOf("ws1", 1) = {}
    /\ TranscriptionsOf("ws1", 2) # {}
    /\ last = Event("done", "ws1", "sent")

----------------------------------------------------------------------------
(* C5 *)

\* C5: a batch for which the engine returned an empty or blank text has no
\* transcription message, no transcription message has an empty text, and
\* after such a result the worker polls again, ready to dequeue.
C5_EmptyResultSendsNothing ==
    /\ \A i \in 1..Len(engine_log) :
          (engine_log[i].result = "returned" /\ strip(engine_log[i].text) = <<>>)
             => TranscriptionsOf(engine_log[i].ws, engine_log[i].cut) = {}
    /\ \A ws \in Sockets : \A i \in 1..Len(sent[ws]) :
          sent[ws][i].msg.type = "transcription" => sent[ws][i].msg.text # <<>>
    /\ (last.op = "done" /\ last.out = "no_speech") =>
          /\ worker = "poll"
          /\ task = NoTask
          /\ audio_queue # <<>> => ENABLED WorkerGet

\* the engine found no speech in batch 1, and batch 2 was then delivered
C5_Witness ==
    /\ Len(engine_log) = 2
    /\ engine_log[1].result = "returned"
    /\ engine_log[1].text = <<>>
    /\ TranscriptionsOf("ws1", 1) = {}
    /\ TranscriptionsOf("ws1", 2) # {}
    /\ Registered("ws1")

----------------------------------------------------------------------------
(* C6 *)

\* C6: unregistering a connection takes nothing from the queue and leaves the
\* batch in flight and the worker as they are; nothing is ever sent to a connection that is not
\* registered; and when the engine call of such a connection's batch ends,
\* the call is recorded as ended and the worker took no exception path of
\* its own (the only error it may log is the engine's).
C6_UnregisteredResultIsDropped ==
    [][/\ \A ws \in Sockets :
             (Registered(ws) /\ ws \notin DOMAIN active_connections') =>
                /\ Len(audio_queue') >= Len(audio_queue)
                /\ SubSeq(audio_queue', 1, Len(audio_queue)) = audio_queue
                /\ UNCHANGED <<task, worker, engine_log>>
       /\ \A ws \in Sockets : ~Registered(ws) => sent'[ws] = sent[ws]
       /\ (worker = "to_thread" /\ worker' # "to_thread" /\ ~Registered(task.ws)) =>
             /\ worker' = "poll"
             /\ engine_log'[Len(engine_log)].result # "pending"
             /\ last'.out \in {"not_active", "no_speech", "transcription_error"}
             /\ last'.out = "transcription_error" =>
                   engine_log'[Len(engine_log)].result = "raised"]_vars

\* the client left while its batch waited or was in flight; the engine
\* returned speech for it and the result was dropped
C6_Witness ==
    /\ last = Event("done", "ws1", "not_active")
    /\ ~Registered("ws1")
    /\ engine_log[Len(engine_log)].result = "returned"
    /\ engine_log[Len(engine_log)].text # <<>>
    /\ TranscriptionsOf("ws1", engine_log[Len(engine_log)].cut) = {}

----------------------------------------------------------------------------
(* C7 *)

\* C7: when the send of a transcription message fails, the connection is no
\* longer registered afterwards, and the batch is neither put back on the
\* queue nor kept by the worker.
C7_FailedSendUnregisters ==
    (last.op = "done" /\ last.out = "send_failed") =>
        /\ ~Registered(last.ws)
        /\ task = NoTask
        /\ \A j \in 1..Len(audio_queue) :
              <<audio_queue[j].ws, audio_queue[j].cut>>
                 # <<engine_log[Len(engine_log)].ws, engine_log[Len(engine_log)].cut>>

----------------------------------------------------------------------------
(* C8 *)

\* C8: when the "Processing audio..." notification of a cut cannot be
\* delivered, the connection is still registered and its handler still runs.
C8_ProcessingNoticeFailureIsHarmless ==
    (last.op = "bytes" /\ last.out = "send_failed") =>
        /\ Registered(last.ws)
        /\ Running(last.ws)

----------------------------------------------------------------------------
(* C9 *)

\* the text payloads that are no set_language message
Unrecognized == {Ping, NoType, JsonList, JsonNumber, JsonNull, Truncated, NotJson}

\* C9: handling a text message that is no set_language message changes
\* neither the registry (registration, language, buffer) nor the handler's
\* position, and sends nothing.
C9_UnrecognizedTextIsIgnored ==
    [][\A ws \in Sockets : \A text \in Unrecognized :
          RecvText(ws, text) =>
             UNCHANGED <<active_connections, handler, sent, audio_queue>>]_vars

----------------------------------------------------------------------------
(* C10 *)

\* the set_language payloads that name their language, and the language named
Explicit == {SetFr, SetEn}

Named(text) == IF text = SetFr THEN "fr" ELSE "en"

\* what handling set_language does when the acknowledgement is delivered
Acknowledged(ws, L) ==
    /\ ws \in DOMAIN active_connections'
    /\ DOMAIN active_connections' = DOMAIN active_connections
    /\ \A w \in DOMAIN active_connections :
          /\ active_connections'[w].buffer = active_connections[w].buffer
          /\ active_connections'[w].language =
                IF w = ws THEN L ELSE active_connections[w].language
    /\ sent' = [sent EXCEPT ![ws] =
                   Append(@, [msg |-> [type |-> "status",
                                       message |-> <<"Language set to ", L>>],
                              ws |-> "none", cut |-> 0])]
    /\ handler' = handler
    /\ audio_queue' = audio_queue
    /\ active_connections[ws].language = L =>
          active_connections' = active_connections

\* what it does when the send of the acknowledgement fails
AckFailed(ws) ==
    /\ DOMAIN active_connections' = DOMAIN active_connections \ {ws}
    /\ \A w \in DOMAIN active_connections' :
          active_connections'[w] = active_connections[w]
    /\ handler'[ws] = "exited"
    /\ sent' = sent
    /\ audio_queue' = audio_queue

\* C10 as stated: handling set_language with language L always leaves the
\* connection registered with language L and the same buffer, sends it
\* exactly one "Language set to L", and leaves the queue unchanged.
C10_SetLanguageAlwaysAcknowledged ==
    [][\A ws \in Sockets : \A text \in Explicit :
          RecvText(ws, text) => Acknowledged(ws, Named(text))]_vars

\* C10 as amended: handling set_language with language L leaves the queue
\* unchanged and either sets the language to L, keeps the buffer and sends
\* exactly one "Language set to L" (a second handling then changes nothing
\* in the registry), or, when the send of the acknowledgement fails, removes
\* the connection from the registry, ends its handler and sends nothing.
C10_SetLanguage ==
    [][\A ws \in Sockets : \A text \in Explicit :
          RecvText(ws, text) =>
             \/ Acknowledged(ws, Named(text))
             \/ AckFailed(ws)]_vars

\* "fr" was set twice in a row while chunks waited in the buffer
C10_Witness ==
    /\ last = Event("text", "ws1", "set")
    /\ Registered("ws1")
    /\ active_connections["ws1"].language = "fr"
    /\ Len(active_connections["ws1"].buffer) = 3
    /\ Len(sent["ws1"]) >= 2
    /\ sent["ws1"][Len(sent["ws1"])].msg = LanguageStatus("fr")
    /\ sent["ws1"][Len(sent["ws1"]) - 1].msg = LanguageStatus("fr")

----------------------------------------------------------------------------
(* C11 *)

\* the engine calls that have started and not ended
InFlight == {i \in 1..Len(engine_log) : engine_log[i].result = "pending"}

\* a step that takes a batch from the queue
Dequeues == Len(audio_queue') < Len(audio_queue)

\* the engine call the worker makes for batch t
CallFor(t) ==
    [ws |-> t.ws, cut |-> t.cut, audio_np |-> concatenate(t.chunks),
     language |-> t.language, result |-> "pending", text |-> <<>>]

\* C11: at most one engine call is in flight at any time; the worker takes a
\* batch from the queue only when no call is in flight and the result of
\* every earlier call has been handled; it takes the batch at the head, and
\* the calls are made in the order the batches were taken (each dequeue
\* adds its call at the end of the calls made, and no call is made
\* otherwise).
C11_OneEngineCallAtATime ==
    [][/\ Cardinality(InFlight') <= 1
       /\ InFlight' \subseteq {Len(engine_log')}
       /\ (InFlight' # {}) = (worker' = "to_thread")
       /\ Dequeues =>
             /\ InFlight = {}
             /\ worker = "poll" /\ task = NoTask
             /\ audio_queue' = Tail(audio_queue)
             /\ task' = Head(audio_queue)
             /\ engine_log' = Append(engine_log, CallFor(Head(audio_queue)))
       /\ ~Dequeues =>
             /\ Len(engine_log') = Len(engine_log)
             /\ \A i \in 1..Len(engine_log) :
                   <<engine_log'[i].ws, engine_log'[i].cut>> =
                      <<engine_log[i].ws, engine_log[i].cut>>]_vars

\* the second batch waits in the queue while the call of the first is in
\* flight
C11_Witness ==
    /\ worker = "to_thread"
    /\ InFlight = {1}
    /\ Len(audio_queue) = 1
    /\ audio_queue[1].cut = 2
    /\ task.cut = 1

----------------------------------------------------------------------------
(* C12 *)

\* the numbers of the batches of ws in a sequence of batches, calls or
\* delivered messages, in the order of the sequence
RECURSIVE CutsIn(_, _)
CutsIn(seq, ws) ==
    IF seq = <<>> THEN <<>>
    ELSE IF Head(seq).ws = ws THEN <<Head(seq).cut>> \o CutsIn(Tail(seq), ws)
    ELSE CutsIn(Tail(seq), ws)

\* the numbers m..n in ascending order
Range(m, n) == [i \in 1..(n - m + 1) |-> m + i - 1]

Ascending(cuts) == \A i \in 1..Len(cuts) : \A j \in 1..Len(cuts) :
                      i < j => cuts[i] < cuts[j]

\* C12: whatever the other connections do, the batches of a connection are
\* enqueued at the tail in the order they were cut and dequeued in that
\* order: the batches of ws handed to the engine are 1..k in this order and
\* those waiting are k+1..n in this order; and the transcription messages
\* ws receives are about batches handed to the engine, in ascending order
\* of the cut.
C12_PerConnectionOrder ==
    [][\A ws \in Sockets :
          LET called == CutsIn(engine_log', ws)
              waiting == CutsIn(audio_queue', ws)
              n == Len(ingest_log'[ws]) \div BATCH_THRESHOLD
          IN /\ called = Range(1, Len(called))
             /\ waiting = Range(Len(called) + 1, n)
             /\ Ascending(CutsIn(sent'[ws], ws))
             /\ \A i \in 1..Len(sent'[ws]) :
                   sent'[ws][i].msg.type = "transcription" =>
                      /\ sent'[ws][i].ws = ws
                      /\ sent'[ws][i].cut \in 1..Len(called)
             /\ Len(audio_queue') > Len(audio_queue) =>
                   SubSeq(audio_queue', 1, Len(audio_queue)) = audio_queue
             /\ Len(audio_queue') < Len(audio_queue) =>
                   audio_queue' = Tail(audio_queue)]_vars

\* the calls were made for batch 1 of ws1, batch 1 of ws2 and batch 2 of
\* ws1 in this order, and ws1 received the transcriptions of its two
\* batches, ws2 that of its batch
C12_Witness ==
    /\ Len(engine_log) = 3
    /\ CutsIn(engine_log, "ws1") = <<1, 2>>
    /\ engine_log[2].ws = "ws2"
    /\ CutsIn(sent["ws1"], "ws1") = <<1, 2>>
    /\ CutsIn(sent["ws2"], "ws2") = <<1>>

----------------------------------------------------------------------------
(* C13 *)

\* C13: the engine is never called for a batch without samples, and no
\* transcription message is delivered for such a batch.
C13_ZeroLengthBatchSkipsEngine ==
    \A i \in 1..Len(engine_log) :
        engine_log[i].audio_np = <<>> =>
           /\ engine_log[i].result \notin {"pending", "returned", "raised"}
           /\ TranscriptionsOf(engine_log[i].ws, engine_log[i].cut) = {}

----------------------------------------------------------------------------
(* C14 *)

\* the "Processing audio..." messages ws received
ProcessingCount(ws) ==
    Count(sent[ws], LAMBDA d : d.msg = [type |-> "status",
                                        message |-> <<"Processing audio...">>])

\* the transcription messages ws received
TranscriptionCount(ws) ==
    Count(sent[ws], LAMBDA d : d.msg.type = "transcription")

\* C14: a connection never received more "Processing audio..." messages
\* than batches were cut on it, nor more transcription messages, nor more
\* than one transcription for one batch; a step that cuts a batch either
\* delivers exactly one "Processing audio..." to the connection or, when
\* that send fails, none; and once the sixth chunk of a connection is
\* handled it has received exactly one "Processing audio...", at most one
\* transcription, and its buffer holds one chunk.
C14_MessagesBoundedByCuts ==
    [][\A ws \in Sockets :
          /\ ProcessingCount(ws)' <= CutsOf(ws)'
          /\ TranscriptionCount(ws)' <= CutsOf(ws)'
          /\ \A k \in 1..CutsOf(ws)' :
                Cardinality(TranscriptionsOf(ws, k)') <= 1
          /\ CutsOf(ws)' # CutsOf(ws) =>
                /\ CutsOf(ws)' = CutsOf(ws) + 1
                /\ \/ /\ ProcessingCount(ws)' = ProcessingCount(ws) + 1
                      /\ Len(sent'[ws]) = Len(sent[ws]) + 1
                   \/ /\ sent'[ws] = sent[ws]
                      /\ last'.out = "send_failed"
          /\ CutsOf(ws)' = CutsOf(ws) =>
                ProcessingCount(ws)' = ProcessingCount(ws)
          /\ Len(ingest_log'[ws]) = BATCH_THRESHOLD + 1 =>
                /\ ProcessingCount(ws)' = 1
                /\ TranscriptionCount(ws)' <= 1
                /\ ws \in DOMAIN active_connections' =>
                      Len(active_connections'[ws].buffer) = 1]_vars

\* six chunks were handled: one batch was cut, announced and transcribed,
\* and the sixth chunk waits in the buffer
C14_Witness ==
    /\ Len(ingest_log["ws1"]) = BATCH_THRESHOLD + 1
    /\ last = Event("bytes", "ws1", "buffered")
    /\ ProcessingCount("ws1") = 1
    /\ TranscriptionCount("ws1") = 1
    /\ Len(active_connections["ws1"].buffer) = 1

----------------------------------------------------------------------------
(* C15 *)

\* the step delivers a transcription message to ws
GetsTranscription(ws) ==
    /\ Len(sent'[ws]) = Len(sent[ws]) + 1
    /\ sent'[ws][Len(sent'[ws])].msg.type = "transcription"

\* C15: a step that delivers a transcription message to a connection is
\* the end of the engine call of a batch whose chunks are chunks that this
\* connection ingested (those of the cut the batch is), the language field
\* of the message is the language of the batch, which is the language the
\* engine was called with, and no other connection receives anything in
\* the step; no transcription is delivered in any other way.
C15_TranscriptionGoesToItsConnection ==
    [][\A ws \in Sockets :
          /\ GetsTranscription(ws) =>
                LET d == sent'[ws][Len(sent'[ws])]
                    T == BATCH_THRESHOLD
                IN /\ worker = "to_thread"
                   /\ task.ws = ws
                   /\ task.chunks = SubSeq(ingest_log[ws], T * (task.cut - 1) + 1,
                                           T * task.cut)
                   /\ engine_log[Len(engine_log)].audio_np =
                         StreamSamples(ws, T * (task.cut - 1) + 1, T * task.cut)
                   /\ d.msg.language = task.language
                   /\ d.msg.language = engine_log[Len(engine_log)].language
                   /\ d.msg.language = LanguageAtCut(ws, task.cut)
                   /\ \A w \in Sockets \ {ws} : sent'[w] = sent[w]
          /\ \A i \in 1..Len(sent'[ws]) :
                (sent'[ws][i].msg.type = "transcription" /\ i <= Len(sent[ws]))
                   => sent'[ws][i] = sent[ws][i]]_vars

\* ws2 receives the transcription of its batch, stamped "en", after ws1
\* received the transcription of a batch stamped "fr"
C15_Witness ==
    /\ last = Event("done", "ws2", "sent")
    /\ sent["ws2"][Len(sent["ws2"])].msg.language = "en"
    /\ \E i \in 1..Len(sent["ws1"]) :
          /\ sent["ws1"][i].msg.type = "transcription"
          /\ sent["ws1"][i].msg.language = "fr"

----------------------------------------------------------------------------
(* C16 *)

Exited(ws) == handler[ws] = "exited"

\* of n ingested chunks, those that belong to no complete batch
Residual(n) == (BATCH_THRESHOLD * (n \div BATCH_THRESHOLD) + 1)..n

\* of n ingested chunks, those of batch number cut are not residual
MadeOfCutChunks(n, cut) ==
    \A k \in (BATCH_THRESHOLD * (cut - 1) + 1)..(BATCH_THRESHOLD * cut) :
        k \in 1..n /\ k \notin Residual(n)

\* C16: the step that ends a handler (the client went away, a send failed,
\* or the handler raised) removes the connection from the registry; from
\* then on no chunk of the connection is ingested and no batch of it is
\* enqueued, only dequeued; and the chunks that were left in its buffer are
\* in no batch that waits and in no engine call.
C16_TeardownDiscardsBuffer ==
    [][\A ws \in Sockets :
          /\ (Running(ws) /\ Exited(ws)') =>
                /\ Registered(ws)
                /\ ws \notin DOMAIN active_connections'
                /\ last'.ws = ws
                /\ last'.out \in {"closed", "send_failed", "error"}
          /\ Exited(ws) =>
                /\ Exited(ws)'
                /\ ws \notin DOMAIN active_connections'
                /\ ingest_log'[ws] = ingest_log[ws]
                /\ CutsOf(ws)' = CutsOf(ws)
                /\ \/ CutsIn(audio_queue', ws) = CutsIn(audio_queue, ws)
                   \/ /\ audio_queue' = Tail(audio_queue)
                      /\ Head(audio_queue).ws = ws
          /\ Exited(ws)' =>
                /\ \A i \in 1..Len(audio_queue') :
                      audio_queue'[i].ws = ws =>
                         /\ MadeOfCutChunks(Len(ingest_log'[ws]),
                                            audio_queue'[i].cut)
                         /\ Len(audio_queue'[i].chunks) = BATCH_THRESHOLD
                /\ \A i \in 1..Len(engine_log') :
                      engine_log'[i].ws = ws =>
                         /\ MadeOfCutChunks(Len(ingest_log'[ws]),
                                            engine_log'[i].cut)
                         /\ engine_log'[i].audio_np =
                               StreamSamples(ws,
                                  BATCH_THRESHOLD * (engine_log'[i].cut - 1) + 1,
                                  BATCH_THRESHOLD * engine_log'[i].cut)]_vars

\* the client left with two chunks in the buffer; afterwards the one batch
\* that had been cut was transcribed, and nothing waits
C16_Witness ==
    /\ Exited("ws1")
    /\ ~Registered("ws1")
    /\ Len(ingest_log["ws1"]) = BATCH_THRESHOLD + 2
    /\ last.op = "done"
    /\ Len(engine_log) = 1
    /\ engine_log[1].result = "returned"
    /\ audio_queue = <<>>
    /\ worker = "poll"

----------------------------------------------------------------------------
(* C17 *)

\* the batches a connection can cut out of MaxChunks chunks
Batches == Sockets \X (1..(MaxChunks \div BATCH_THRESHOLD))

Waits(b) == \E i \in 1..Len(audio_queue) :
               <<audio_queue[i].ws, audio_queue[i].cut>> = b

\* the engine calls made for batch b
CallsOf(b) == {i \in 1..Len(engine_log) :
                  <<engine_log[i].ws, engine_log[i].cut>> = b}

\* C17: no batch is on the queue twice, none is handed to the engine twice,
\* and none waits once it was handed to the engine; and when the worker
\* keeps polling and every engine call ends, a batch that waits is
\* eventually taken from the queue and handed to the engine.
C17_ConsumedExactlyOnce ==
    /\ [](\A b \in Batches :
             /\ Cardinality(CallsOf(b)) <= 1
             /\ Cardinality({i \in 1..Len(audio_queue) :
                   <<audio_queue[i].ws, audio_queue[i].cut>> = b}) <= 1
             /\ ~(Waits(b) /\ CallsOf(b) # {}))
    /\ \A b \in Batches : Waits(b) ~> (~Waits(b) /\ CallsOf(b) # {})

\* the second batch waited while the first was in flight, and both were
\* handed to the engine once and their calls ended
C17_Witness ==
    /\ last.op = "done"
    /\ audio_queue = <<>>
    /\ Cardinality(CallsOf(<<"ws1", 1>>)) = 1
    /\ Cardinality(CallsOf(<<"ws1", 2>>)) = 1
    /\ \A i \in 1..Len(engine_log) : engine_log[i].result # "pending"

----------------------------------------------------------------------------
(* C18 *)

\* C18: a batch is created with the chunks that were in the buffer at the
\* cut and the language of its connection at that moment; as long as it
\* waits, no step (ingesting a chunk, a language change, the end of the
\* handler, the worker) changes it; the engine is called with the
\* concatenation of these chunks and this language; and the batch in
\* flight and the record of the calls made stay as they are until the
\* call ends.
C18_BatchIsImmutable ==
    [][/\ Len(audio_queue') >= Len(audio_queue) =>
             SubSeq(audio_queue', 1, Len(audio_queue)) = audio_queue
       /\ Len(audio_queue') > Len(audio_queue) =>
             LET t == audio_queue'[Len(audio_queue')]
                 n == Len(ingest_log'[t.ws])
             IN /\ Len(audio_queue') = Len(audio_queue) + 1
                /\ Len(ingest_log'[t.ws]) = Len(ingest_log[t.ws]) + 1
                /\ t.chunks = Append(active_connections[t.ws].buffer,
                                     ingest_log'[t.ws][n])
                /\ Len(t.chunks) = BATCH_THRESHOLD
                /\ t.language = active_connections[t.ws].language
       /\ Len(audio_queue') < Len(audio_queue) =>
             /\ audio_queue' = Tail(audio_queue)
             /\ task' = Head(audio_queue)
             /\ engine_log'[Len(engine_log')].audio_np =
                   concatenate(Head(audio_queue).chunks)
             /\ engine_log'[Len(engine_log')].language =
                   Head(audio_queue).language
       /\ (worker = "to_thread" /\ worker' = "to_thread") => task' = task
       /\ \A i \in 1..Len(engine_log) :
             /\ engine_log'[i].audio_np = engine_log[i].audio_np
             /\ engine_log'[i].language = engine_log[i].language]_vars

\* a batch was cut under "en"; while it waited two more chunks were
\* ingested, the language was set to "fr" and the handler ended; then the
\* engine was called with the five chunks and "en"
C18_Witness ==
    /\ last = Event("get", "ws1", "transcribing")
    /\ Len(engine_log) = 1
    /\ engine_log[1].language = "en"
    /\ engine_log[1].audio_np = StreamSamples("ws1", 1, BATCH_THRESHOLD)
    /\ Len(ingest_log["ws1"]) = BATCH_THRESHOLD + 2
    /\ Len(sent["ws1"]) = 2
    /\ sent["ws1"][1].msg = ProcessingStatus
    /\ sent["ws1"][2].msg = LanguageStatus("fr")
    /\ handler["ws1"] = "exited"

----------------------------------------------------------------------------
(* C19 *)

\* the step is one of the handler of A: it handled a message (text, audio,
\* malformed) or ended; every action records itself in last
HandlerStep(A) ==
    /\ last'.ws = A
    /\ last'.op \in {"text", "bytes", "disconnect"}
    /\ Running(A)

\* the step is one of the worker
WorkerStep == last'.op \in {"get", "done"} /\ worker' # worker

\* the registration, language and buffer of B are as before
SameEntry(B) ==
    /\ (B \in DOMAIN active_connections') = (B \in DOMAIN active_connections)
    /\ B \in DOMAIN active_connections =>
          /\ active_connections'[B].language = active_connections[B].language
          /\ active_connections'[B].buffer = active_connections[B].buffer

\* C19: when the handler of connection A handles a message or ends, the
\* registration, language and buffer of every other connection stay as they
\* are, and so does the position of its handler; a step of the worker
\* leaves the registration, language and buffer of every connection as
\* they are.
C19_OtherConnectionsUntouched ==
    [][/\ \A A \in Sockets :
             HandlerStep(A) =>
                \A B \in Sockets \ {A} :
                   SameEntry(B) /\ handler'[B] = handler[B]
       /\ WorkerStep => \A B \in Sockets : SameEntry(B)]_vars

\* the handler of ws1 raised on a text message and ended while ws2 had
\* three chunks in its buffer
C19_Witness ==
    /\ last = Event("text", "ws1", "error")
    /\ ~Registered("ws1")
    /\ Registered("ws2")
    /\ Len(active_connections["ws2"].buffer) = 3
    /\ Len(ingest_log["ws1"]) = 2

----------------------------------------------------------------------------
(* C20 *)

\* C20: a connection whose handler runs is registered, so the handler finds
\* its language and its buffer; the entry is created by the step that
\* accepts the connection, before any message is handled, and it is removed
\* only by a step of the connection's own handler, the step that ends it;
\* no step of the worker adds or removes an entry.
C20_RunningHandlerIsRegistered ==
    [][\A ws \in Sockets :
          /\ Running(ws)' => ws \in DOMAIN active_connections'
          /\ (Running(ws) /\ Running(ws)') =>
                /\ Registered(ws)
                /\ ws \in DOMAIN active_connections'
          /\ (~Registered(ws) /\ ws \in DOMAIN active_connections') =>
                /\ handler[ws] = "pending" /\ Running(ws)'
                /\ last' = Event("accept", ws, "ok")
                /\ sent[ws] = <<>> /\ ingest_log[ws] = <<>>
          /\ (Registered(ws) /\ ws \notin DOMAIN active_connections') =>
                /\ Running(ws) /\ handler'[ws] = "exited"
                /\ last'.ws = ws
                /\ last'.op \in {"text", "bytes", "disconnect"}
          /\ last'.op \in {"get", "done"} =>
                DOMAIN active_connections' = DOMAIN active_connections]_vars

\* the send of a transcription failed in the worker; the handler of the
\* connection runs and its entry, with two chunks in the buffer, is there
C20_Witness ==
    /\ last = Event("done", "ws1", "send_failed")
    /\ Running("ws1")
    /\ Registered("ws1")
    /\ Len(active_connections["ws1"].buffer) = 2

====
